---- MODULE Spec2Model ----
(***************************************************************************)
(* The CSS cascade and computed-style resolver of weasy.css                *)
(* (src/weasy/css/__init__.py), as a state machine that follows            *)
(* get_all_computed_styles loop by loop.                                   *)
(*                                                                         *)
(* Representation:                                                         *)
(*   - DOM elements are the integers 1..NumElements in document order      *)
(*     (lxml's iter() is pre-order); AtPage stands for the '@page' string  *)
(*     used as the "element" of page styles.                               *)
(*   - Python's None is the string "None"; a local variable that was never *)
(*     assigned is "unbound".                                              *)
(*   - A selector specificity is cssutils' 4-tuple; the integer            *)
(*     specificity n of an @page selector is the 1-tuple <<n>>.            *)
(*   - A dict is a function whose DOMAIN is the dict's key set.            *)
(***************************************************************************)
EXTENDS Integers, Sequences, FiniteSets, TLC

\* Bounds of the model.
MaxRules == 2
NumElements == 2

MaxBoxes == 4

None == "None"
Unbound == "unbound"
AtPage == -1
Elements == 1..NumElements

\* Module constants.

PSEUDO_ELEMENTS == {"before", "after", "first-line", "first-letter"}

PAGE_TYPES == <<"left", "right", "first_left", "first_right">>

PAGE_PSEUDOCLASS_TARGETS ==
    [x \in {None, ":left", ":right", ":first"} |->
        CASE x = None     -> PAGE_TYPES
          [] x = ":left"  -> <<"left", "first_left">>
          [] x = ":right" -> <<"right", "first_right">>
          [] x = ":first" -> <<"first_left", "first_right">>]

\* Mutant: :first no more specific than :left and :right.
PAGE_PSEUDOCLASS_SPECIFICITY_flat ==
    [x \in {None, ":left", ":right", ":first"} |-> IF x = None THEN <<0>> ELSE <<1>>]

PAGE_PSEUDOCLASS_SPECIFICITY ==
    [x \in {None, ":left", ":right", ":first"} |->
        CASE x = None     -> <<0>>
          [] x = ":left"  -> <<1>>
          [] x = ":right" -> <<1>>
          [] x = ":first" -> <<10>>]

\* The (sheets, origin) pairs of get_all_computed_styles, in its order.
ORIGINS == <<"author", "user", "user agent">>

\* properties.INITIAL_VALUES and properties.INHERITED (weasy/css/properties.py).
INITIAL_VALUES ==
    [name \in {"color", "margin-top", "margin-right", "margin-bottom", "margin-left"} |->
        IF name = "color" THEN <<"black">> ELSE <<"0">>]

INHERITED == {"color"}

\* Python helpers.

\* Python 2 ordering of two specificities: tuples compare lexicographically,
\* and a number is smaller than any tuple.
RECURSIVE TupleLE(_, _)
TupleLE(a, b) ==
    IF a = <<>> THEN TRUE
    ELSE IF b = <<>> THEN FALSE
    ELSE IF a[1] # b[1] THEN a[1] < b[1]
    ELSE TupleLE(Tail(a), Tail(b))

SpecificityLE(a, b) ==
    IF Len(a) = 1 /\ Len(b) = 1 THEN a[1] <= b[1]
    ELSE IF Len(a) = 1 THEN TRUE
    ELSE IF Len(b) = 1 THEN FALSE
    ELSE TupleLE(a, b)

\* weight = (precedence, specificity); previous_weight <= weight.
WeightLE(w1, w2) ==
    IF w1[1] # w2[1] THEN w1[1] < w2[1] ELSE SpecificityLE(w1[2], w2[2])

\* dict[key] = value
DictSet(d, k, v) == (k :> v) @@ d

\* Sequence of the elements of a set of integers, in increasing order.
RECURSIVE SortedSeq(_)
SortedSeq(S) ==
    IF S = {} THEN <<>>
    ELSE LET m == CHOOSE x \in S : \A y \in S : x <= y
         IN <<m>> \o SortedSeq(S \ {m})


\* The empty dict.
EmptyDict == <<>>

\* dict.get(key, default)
DictGet(d, k, default) == IF k \in DOMAIN d THEN d[k] ELSE default

\* ---------------------------------------------------------------------
\* Collaborators that live outside src/ (spec.md sections 4.2, 4.3 and 6).

\* validation.validate_and_expand: shorthand expansion and validation of one
\* declaration; an unknown property yields nothing.
validate_and_expand(name, values) ==
    IF name = "margin"
    THEN <<  <<"margin-top", values>>, <<"margin-right", values>>,
             <<"margin-bottom", values>>, <<"margin-left", values>>  >>
    ELSE IF name \in DOMAIN INITIAL_VALUES THEN << <<name, values>> >>
    ELSE <<>>

\* values.get_single_keyword: the keyword when the value list is one
\* identifier, None otherwise.
IDENTIFIERS == {"inherit", "initial", "red", "blue", "green", "black"}

get_single_keyword(values) ==
    IF Len(values) = 1 /\ values[1] \in IDENTIFIERS THEN values[1] ELSE None

\* computed_values.compute_values: finalization of the specified values
\* (absolute units are converted to px; everything else is kept).
ComputeToken(token) == IF token = "1in" THEN "96px" ELSE token

compute_values(element, pseudo_type, style, parent_style) ==
    [name \in DOMAIN style |->
        [i \in 1..Len(style[name]) |-> ComputeToken(style[name][i])]]

\* ---------------------------------------------------------------------
\* Pure functions of weasy.css.

evaluate_media_query(query_list, medium) ==
    \/ query_list = <<"all">>
    \/ \E i \in 1..Len(query_list) : query_list[i] = medium

\* effective_rules over a sheet [media, cssRules]; an @media rule and the
\* sheet of an @import rule carry the same two attributes.
RECURSIVE effective_rules(_, _)
RECURSIVE EffectiveRulesOf(_, _)
EffectiveRulesOf(cssRules, medium) ==
    IF cssRules = <<>> THEN <<>>
    ELSE LET rule == Head(cssRules)
             here == IF rule.type \in {"CHARSET_RULE", "COMMENT"} THEN <<>>
                     ELSE IF rule.type \in {"IMPORT_RULE", "MEDIA_RULE"}
                     THEN effective_rules(rule, medium)
                     ELSE <<rule>>
         IN here \o EffectiveRulesOf(Tail(cssRules), medium)

\* Mutant: the media of the sheet, @import or @media is not evaluated.
effective_rules_any_media(sheet, medium) == EffectiveRulesOf(sheet.cssRules, medium)

effective_rules(sheet, medium) ==
    IF ~evaluate_media_query(sheet.media, medium) THEN <<>>
    ELSE EffectiveRulesOf(sheet.cssRules, medium)

RECURSIVE effective_declarations(_)
effective_declarations(declaration_block) ==
    IF declaration_block = <<>> THEN <<>>
    ELSE LET declaration == Head(declaration_block)
             expanded == validate_and_expand(declaration.name, declaration.propertyValue)
         IN [i \in 1..Len(expanded) |->
                <<expanded[i][1], expanded[i][2], declaration.priority>>]
            \o effective_declarations(Tail(declaration_block))

\* Mutant: !important of the author and of the user exchanged.
declaration_precedence_swapped(origin_name, importance) ==
    IF origin_name = "user agent" THEN 1
    ELSE IF origin_name = "user" /\ importance = "" THEN 2
    ELSE IF origin_name = "author" /\ importance = "" THEN 3
    ELSE IF origin_name = "author" THEN 5
    ELSE IF origin_name = "user" THEN 4
    ELSE None

declaration_precedence(origin_name, importance) ==
    IF origin_name = "user agent" THEN 1
    ELSE IF origin_name = "user" /\ importance = "" THEN 2
    ELSE IF origin_name = "author" /\ importance = "" THEN 3
    ELSE IF origin_name = "author" THEN 4
    ELSE IF origin_name = "user" THEN 5
    ELSE None  \* `assert ValueError(...)` asserts a truthy object: nothing is raised

\* Mutant: previous_weight < weight, a tie keeps the earlier declaration.
add_declaration_strict(cascaded, prop_name, prop_values, weight, element, ptype) ==
    LET key == <<element, ptype>>
        style == DictGet(cascaded, key, EmptyDict)
    IN IF prop_name \notin DOMAIN style \/ ~WeightLE(weight, style[prop_name][2])
       THEN DictSet(cascaded, key, DictSet(style, prop_name, <<prop_values, weight>>))
       ELSE DictSet(cascaded, key, style)

add_declaration(cascaded, prop_name, prop_values, weight, element, ptype) ==
    LET key == <<element, ptype>>
        style == DictGet(cascaded, key, EmptyDict)
    IN IF prop_name \notin DOMAIN style \/ WeightLE(style[prop_name][2], weight)
       THEN DictSet(cascaded, key, DictSet(style, prop_name, <<prop_values, weight>>))
       ELSE DictSet(cascaded, key, style)

\* cssselect.CSSSelector(parsed) raises ExpressionError for a pseudo-class it
\* does not know and for a pseudo-element that is not at the end.
CSSSelectorRaises(ident, inner) == ident # None \/ inner

\* selector_to_xpath: [raised, pseudo_type, target]; the selector callable is
\* represented by the selector's target (0: every element, k: element k).
selector_to_xpath(selector) ==
    LET is_pseudo_element == selector.ident \in PSEUDO_ELEMENTS
        ptype == IF is_pseudo_element THEN selector.ident ELSE None
        rest == IF is_pseudo_element THEN None ELSE selector.ident
    IN [raised |-> CSSSelectorRaises(rest, selector.inner),
        pseudo_type |-> ptype,
        target |-> selector.target]

\* selector_callable(document.dom): the matching elements, in document order.
SelectElements(target) ==
    SortedSeq(IF target = 0 THEN Elements ELSE {target} \cap Elements)

RECURSIVE MatchesOf(_)
MatchesOf(selector_list) ==
    IF selector_list = <<>> THEN <<>>
    ELSE LET selector == Head(selector_list)
             x == selector_to_xpath(selector)
             elements == SelectElements(x.target)
         IN [i \in 1..Len(elements) |->
                <<elements[i], x.pseudo_type, selector.specificity>>]
            \o MatchesOf(Tail(selector_list))

\* Mutant: an unsupported selector is skipped, the others still match.
match_selectors_lenient(selector_list) ==
    MatchesOf(SelectSeq(selector_list, LAMBDA x : ~selector_to_xpath(x).raised))

\* match_selectors: the (element, pseudo_type, specificity) triples, or
\* nothing when one selector of the list raises ExpressionError.
match_selectors(selector_list) ==
    IF \E i \in 1..Len(selector_list) : selector_to_xpath(selector_list[i]).raised
    THEN <<>>
    ELSE MatchesOf(selector_list)

\* match_page_selector: [raised, matched]; raised is the KeyError of the
\* PAGE_PSEUDOCLASS_SPECIFICITY lookup, made before page_types is tested.
match_page_selector(selector) ==
    LET pseudo_class == IF selector = "" THEN None ELSE selector
        known == pseudo_class \in DOMAIN PAGE_PSEUDOCLASS_TARGETS
        page_types == IF known THEN PAGE_PSEUDOCLASS_TARGETS[pseudo_class] ELSE <<>>
    IN IF pseudo_class \notin DOMAIN PAGE_PSEUDOCLASS_SPECIFICITY
       THEN [raised |-> TRUE, matched |-> <<>>]
       ELSE [raised |-> FALSE,
             matched |-> [i \in 1..Len(page_types) |->
                 <<AtPage, page_types[i], PAGE_PSEUDOCLASS_SPECIFICITY[pseudo_class]>>]]


\* Lines 451-456 of get_all_computed_styles: the declarations of one rule
\* added for every matched (element, pseudo_type, specificity).
RECURSIVE AddDeclarations(_, _, _, _)
AddDeclarations(cascaded, declarations, origin_name, match) ==
    IF declarations = <<>> THEN cascaded
    ELSE LET d == Head(declarations)
             precedence == declaration_precedence(origin_name, d[3])
             weight == <<precedence, match[3]>>
         IN AddDeclarations(
                add_declaration(cascaded, d[1], d[2], weight, match[1], match[2]),
                Tail(declarations), origin_name, match)

RECURSIVE AddMatched(_, _, _, _)
AddMatched(cascaded, matched, declarations, origin_name) ==
    IF matched = <<>> THEN cascaded
    ELSE AddMatched(AddDeclarations(cascaded, declarations, origin_name, Head(matched)),
                    Tail(matched), declarations, origin_name)

\* The value the loop variable pseudo_type has after the loop of line 451.
PseudoTypeAfter(previous, matched) ==
    IF matched = <<>> THEN previous ELSE matched[Len(matched)][2]

\* Lines 459-464: the declarations of one style attribute, added under the
\* pseudo_type left behind by the loop of line 451.
RECURSIVE AddStyleAttribute(_, _, _, _)
AddStyleAttribute(cascaded, declarations, element, ptype) ==
    IF declarations = <<>> THEN cascaded
    ELSE LET d == Head(declarations)
             precedence == declaration_precedence("author", d[3])
             weight == <<precedence, <<1, 0, 0, 0>> >>
         IN AddStyleAttribute(
                add_declaration(cascaded, d[1], d[2], weight, element, ptype),
                Tail(declarations), element, ptype)

\* The calls of add_declaration made by the two loops above, in order.
CallsOf(matched, declarations, origin_name, is_inline) ==
    [n \in 1..(Len(matched) * Len(declarations)) |->
        LET m == matched[((n - 1) \div Len(declarations)) + 1]
            d == declarations[((n - 1) % Len(declarations)) + 1]
        IN [element |-> m[1], pseudo_type |-> m[2], name |-> d[1], values |-> d[2],
            weight |-> <<declaration_precedence(origin_name, d[3]), m[3]>>,
            origin |-> origin_name, importance |-> d[3], inline |-> is_inline]]

\* parent_style is None.
NoStyle == <<>>

\* Mutant: inherit resolved to the initial value, whatever the parent.
SpecifiedValue_no_parent(name, style, parent_style) ==
    LET keyword == IF name \notin DOMAIN style
                   THEN (IF name \in INHERITED THEN "inherit" ELSE "initial")
                   ELSE get_single_keyword(style[name])
    IN IF keyword \in {"initial", "inherit"} THEN INITIAL_VALUES[name] ELSE style[name]

\* Mutant: only a missing value is resolved, a cascaded keyword is kept.
SpecifiedValue_keeps_keyword(name, style, parent_style) ==
    IF name \in DOMAIN style THEN style[name]
    ELSE IF name \in INHERITED /\ parent_style # NoStyle THEN parent_style[name]
    ELSE INITIAL_VALUES[name]

\* computed_from_cascaded, lines 366-395: the specified values.
SpecifiedValue(name, style, parent_style) ==
    LET keyword0 == IF name \notin DOMAIN style
                    THEN (IF name \in INHERITED THEN "inherit" ELSE "initial")
                    ELSE get_single_keyword(style[name])
        keyword == IF keyword0 = "inherit" /\ parent_style = NoStyle
                   THEN "initial" ELSE keyword0
    IN IF keyword = "initial" THEN INITIAL_VALUES[name]
       ELSE IF keyword = "inherit" THEN parent_style[name]
       ELSE style[name]

SpecifiedStyle(cascaded, parent_style) ==
    LET style == [name \in DOMAIN cascaded |-> cascaded[name][1]]
    IN [name \in DOMAIN style \cup DOMAIN INITIAL_VALUES |->
           IF name \in DOMAIN INITIAL_VALUES
           THEN SpecifiedValue(name, style, parent_style)
           ELSE style[name]]

computed_from_cascaded(element, cascaded, parent_style, ptype) ==
    compute_values(element, ptype, SpecifiedStyle(cascaded, parent_style), parent_style)


\* ---------------------------------------------------------------------
\* Inputs: documents and stylesheets.

Medium == "print"

Sel(text, target, ident, inner, specificity) ==
    [selectorText |-> text, target |-> target, ident |-> ident, inner |-> inner,
     specificity |-> specificity]

Decl(name, values, priority) ==
    [name |-> name, propertyValue |-> values, priority |-> priority]

Rule(type, selectorList, selectorText, style, media, cssRules) ==
    [type |-> type, selectorList |-> selectorList, selectorText |-> selectorText,
     style |-> style, media |-> media, cssRules |-> cssRules]

StyleRuleOf(selectorList, style) == Rule("STYLE_RULE", selectorList, "", style, <<>>, <<>>)
PageRuleOf(selectorText, style) == Rule("PAGE_RULE", <<>>, selectorText, style, <<>>, <<>>)
MediaRuleOf(media, cssRules) == Rule("MEDIA_RULE", <<>>, "", <<>>, media, cssRules)
PlainRuleOf(type) == Rule(type, <<>>, "", <<>>, <<>>, <<>>)

\* An @import rule: media and cssRules are those of rule.styleSheet.
ImportRuleOf(media, cssRules) == Rule("IMPORT_RULE", <<>>, "", <<>>, media, cssRules)

SelAll == Sel("*", 0, None, FALSE, <<0, 0, 0, 0>>)
SelRoot == Sel("#a", 1, None, FALSE, <<0, 1, 0, 0>>)
SelLast == Sel("#z", NumElements, None, FALSE, <<0, 1, 0, 0>>)
SelLastBefore == Sel("#z::before", NumElements, "before", FALSE, <<0, 1, 0, 1>>)
SelAllAfter == Sel("*::after", 0, "after", FALSE, <<0, 0, 0, 1>>)
SelSelection == Sel("*::selection", 0, "selection", FALSE, <<0, 0, 0, 1>>)
SelInner == Sel("*::before b", 0, None, TRUE, <<0, 0, 0, 2>>)

ColorRed == <<Decl("color", <<"red">>, "")>>
ColorBlueImportant == <<Decl("color", <<"blue">>, "important")>>
ColorInherit == <<Decl("color", <<"inherit">>, "")>>
ColorInitial == <<Decl("color", <<"initial">>, "")>>
MarginTopInch == <<Decl("margin-top", <<"1in">>, "")>>
MarginTopInherit == <<Decl("margin-top", <<"inherit">>, "")>>
UnknownThenRedThenGreen ==
    <<Decl("colour", <<"red">>, ""), Decl("color", <<"red">>, ""),
      Decl("color", <<"green">>, "")>>

\* The stylesheet of test_page_style (src/weasy/tests/test_boxes.py).
TestPageRules ==
    { PageRuleOf("", <<Decl("margin", <<"3px">>, "")>>),
      PageRuleOf(":first", <<Decl("margin-top", <<"20px">>, "")>>),
      PageRuleOf(":right", <<Decl("margin-right", <<"10px">>, ""),
                             Decl("margin-top", <<"10px">>, "")>>),
      PageRuleOf(":left", <<Decl("margin-left", <<"10px">>, ""),
                            Decl("margin-top", <<"10px">>, "")>>) }

\* The families of inputs. Each one fixes the rules stylesheets are made of,
\* the origins that have stylesheets and the style attributes of the document.
CascadeRules ==
    { StyleRuleOf(l, b) :
        l \in { <<SelAll>>, <<SelLast>>, <<SelLastBefore>>, <<SelAll, SelSelection>>,
                <<SelInner, SelLast>> },
        b \in { ColorRed, ColorBlueImportant, UnknownThenRedThenGreen } }
    \cup { PageRuleOf(":first", MarginTopInch), PageRuleOf("", ColorRed),
           PageRuleOf(":bogus", ColorRed),
           MediaRuleOf(<<"print">>, <<StyleRuleOf(<<SelAll>>, ColorBlueImportant)>>),
           MediaRuleOf(<<"screen">>, <<StyleRuleOf(<<SelAll>>, ColorBlueImportant)>>),
           PlainRuleOf("FONT_FACE_RULE"), PlainRuleOf("COMMENT") }

AttributeRules ==
    { StyleRuleOf(<<SelAll>>, ColorRed), StyleRuleOf(<<SelAll>>, ColorBlueImportant),
      StyleRuleOf(<<SelLastBefore>>, ColorRed), PageRuleOf("", MarginTopInch) }

InheritanceRules ==
    { StyleRuleOf(<<SelRoot>>, ColorRed), StyleRuleOf(<<SelRoot>>, MarginTopInch),
      StyleRuleOf(<<SelLast>>, MarginTopInherit), StyleRuleOf(<<SelAll>>, ColorInherit),
      StyleRuleOf(<<SelLast>>, ColorInitial), StyleRuleOf(<<SelLastBefore>>, MarginTopInherit),
      StyleRuleOf(<<SelAllAfter>>, MarginTopInch),
      PageRuleOf(":left", ColorInherit), PlainRuleOf("FONT_FACE_RULE") }

FAMILIES == {"cascade", "style_attributes", "inheritance", "test_page_style"}

RulesOf(family) ==
    CASE family = "cascade" -> CascadeRules
      [] family = "style_attributes" -> AttributeRules
      [] family = "inheritance" -> InheritanceRules
      [] family = "test_page_style" -> TestPageRules

OriginsOf(family) ==
    CASE family = "cascade" -> {"author", "user", "user agent"}
      [] family = "style_attributes" -> {"author", "user"}
      [] family = "inheritance" -> {"author", "user agent"}
      [] family = "test_page_style" -> {"author"}

\* The style attributes an element can carry (<<>>: no style attribute).
StyleAttributesOf(family) ==
    IF family = "style_attributes"
    THEN { <<>>, <<Decl("color", <<"green">>, "")>>,
           <<Decl("color", <<"green">>, "important")>> }
    ELSE { <<>> }

\* The media attribute of the element a stylesheet comes from.
SheetMedia == {<<"all">>, <<"screen">>}

\* Sequences of 1..n members of S, and the orderings of all the members of S.
SeqsUpTo(S, n) == UNION { [1..k -> S] : k \in 1..n }

Orderings(S) ==
    { q \in [1..Cardinality(S) -> S] : \A r \in S : \E i \in DOMAIN q : q[i] = r }

\* The rule lists a stylesheet of the family can have when `count` rules
\* have been read already.
RuleListsOf(family, count) ==
    IF family = "test_page_style"
    THEN (IF count = 0 THEN Orderings(TestPageRules) ELSE {})
    ELSE SeqsUpTo(RulesOf(family), MaxRules - count)

\* element.getparent() for elements numbered in document order: the parent of
\* an element is an ancestor-or-self of the element before it. 0 is None.
RECURSIVE Ancestors(_, _)
Ancestors(par, e) == IF e = 0 THEN {} ELSE {e} \cup Ancestors(par, par[e])

Documents ==
    { par \in [Elements -> 0..NumElements] :
        /\ \A e \in Elements : par[e] < e
        /\ \A e \in Elements \ {1} : par[e] \in Ancestors(par, e - 1) }


\* ---------------------------------------------------------------------
\* get_all_computed_styles as a state machine.

VARIABLES
    family,           \* the family the inputs of this run are drawn from
    parent,           \* the document: parent[e] is e.getparent(), 0 for None
    pc,               \* the loop get_all_computed_styles is in
    origin,           \* index in ORIGINS of the (sheets, origin) pair being read
    rules,            \* effective_rules(sheet, medium) still to be iterated
    count,            \* number of rules of the stylesheets read so far
    cascaded_styles,
    computed_styles,
    pseudo_type,      \* the local variable pseudo_type
    cursor,           \* position of the element loops and of the page loop
    failure,          \* the exception that ended the call, None without one
    log,              \* history: the (origin, rule) pairs processed
    applied,          \* history: the calls of add_declaration
    specified,        \* history: the specified style of each key resolved
    stage,            \* the function applied last when one is applied on its own
    input,            \* the arguments it is applied to
    output            \* what it returned

vars == <<family, parent, pc, origin, rules, count, cascaded_styles, computed_styles,
          pseudo_type, cursor, failure, log, applied, specified, stage, input, output>>

\* The state get_all_computed_styles starts in.
Entry ==
    /\ pc = "cascade"
    /\ origin = 1
    /\ rules = <<>>
    /\ count = 0
    /\ cascaded_styles = EmptyDict
    /\ computed_styles = EmptyDict
    /\ pseudo_type = Unbound
    /\ cursor = 1
    /\ failure = None
    /\ log = <<>>
    /\ applied = <<>>
    /\ specified = EmptyDict

InitOf(families) ==
    /\ family \in families
    /\ parent \in Documents
    /\ Entry
    /\ stage = "get_all_computed_styles"
    /\ input = <<>>
    /\ output = <<>>

Init == InitOf(FAMILIES \ {"cascade"})

InitCascade == InitOf({"cascade"})

Fail(exception) ==
    /\ pc' = "failed"
    /\ failure' = exception

\* for sheet in sheets: the next stylesheet of the current origin is read and
\* effective_rules(sheet, medium) starts.
BeginSheet ==
    /\ pc = "cascade" /\ rules = <<>>
    /\ ORIGINS[origin] \in OriginsOf(family)
    /\ \E media \in SheetMedia :
       \E cssRules \in RuleListsOf(family, count) :
          /\ rules' = effective_rules([media |-> media, cssRules |-> cssRules], Medium)
          /\ count' = count + Len(cssRules)
    /\ UNCHANGED <<family, parent, pc, origin, cascaded_styles, computed_styles,
                   pseudo_type, cursor, failure, log, applied, specified>>
    /\ UNCHANGED <<stage, input, output>>

\* find_stylesheets yields what parser.parseUrl returns for a resource that
\* cannot be fetched: the parser raises, or returns None and effective_rules
\* raises AttributeError on sheet.media. Nothing in weasy.css catches either.
SheetFails ==
    /\ pc = "cascade" /\ rules = <<>>
    /\ ORIGINS[origin] = "author"
    /\ \E exception \in {"URLError", "AttributeError"} : Fail(exception)
    /\ UNCHANGED <<family, parent, origin, rules, count, cascaded_styles, computed_styles,
                   pseudo_type, cursor, log, applied, specified>>
    /\ UNCHANGED <<stage, input, output>>

\* One iteration of `for rule in effective_rules(sheet, medium)` on a style rule.
StyleRule ==
    /\ pc = "cascade" /\ rules # <<>>
    /\ Head(rules).type = "STYLE_RULE"
    /\ LET rule == Head(rules)
           matched == match_selectors(rule.selectorList)
           declarations == effective_declarations(rule.style)
       IN /\ cascaded_styles' =
                 AddMatched(cascaded_styles, matched, declarations, ORIGINS[origin])
          /\ pseudo_type' = PseudoTypeAfter(pseudo_type, matched)
          /\ applied' = applied \o CallsOf(matched, declarations, ORIGINS[origin], FALSE)
          /\ log' = Append(log, <<ORIGINS[origin], rule>>)
    /\ rules' = Tail(rules)
    /\ UNCHANGED <<family, parent, pc, origin, count, computed_styles, cursor, failure,
                   specified>>
    /\ UNCHANGED <<stage, input, output>>

\* The same iteration on an @page rule.
PageRule ==
    /\ pc = "cascade" /\ rules # <<>>
    /\ Head(rules).type = "PAGE_RULE"
    /\ LET rule == Head(rules)
           result == match_page_selector(rule.selectorText)
           matched == result.matched
           declarations == effective_declarations(rule.style)
       IN /\ IF result.raised THEN Fail("KeyError") ELSE UNCHANGED <<pc, failure>>
          /\ cascaded_styles' =
                 AddMatched(cascaded_styles, matched, declarations, ORIGINS[origin])
          /\ pseudo_type' = PseudoTypeAfter(pseudo_type, matched)
          /\ applied' = applied \o CallsOf(matched, declarations, ORIGINS[origin], FALSE)
          /\ log' = Append(log, <<ORIGINS[origin], rule>>)
    /\ rules' = Tail(rules)
    /\ UNCHANGED <<family, parent, origin, count, computed_styles, cursor, specified>>
    /\ UNCHANGED <<stage, input, output>>

\* The same iteration on any other rule (@font-face, @namespace, @variables).
OtherRule ==
    /\ pc = "cascade" /\ rules # <<>>
    /\ Head(rules).type \notin {"STYLE_RULE", "PAGE_RULE"}
    /\ log' = Append(log, <<ORIGINS[origin], Head(rules)>>)
    /\ rules' = Tail(rules)
    /\ UNCHANGED <<family, parent, pc, origin, count, cascaded_styles, computed_styles,
                   pseudo_type, cursor, failure, applied, specified>>
    /\ UNCHANGED <<stage, input, output>>

\* The stylesheets of the current origin are exhausted.
EndOrigin ==
    /\ pc = "cascade" /\ rules = <<>>
    /\ IF origin < Len(ORIGINS)
       THEN origin' = origin + 1 /\ pc' = pc
       ELSE origin' = origin /\ pc' = "inline"
    /\ UNCHANGED <<family, parent, rules, count, cascaded_styles, computed_styles,
                   pseudo_type, cursor, failure, log, applied, specified>>
    /\ UNCHANGED <<stage, input, output>>


\* One iteration of `for element, declarations in find_style_attributes(document)`,
\* seen from document.dom.iter(): the element has no style attribute, or one
\* whose declarations are added under the current value of pseudo_type.
AfterInline ==
    IF cursor < NumElements
    THEN cursor' = cursor + 1 /\ pc' = pc
    ELSE cursor' = 1 /\ pc' = "elements"

InlineStyle ==
    /\ pc = "inline"
    /\ \E style_attribute \in StyleAttributesOf(family) :
          LET declarations == effective_declarations(style_attribute)
              matched == << <<cursor, pseudo_type, <<1, 0, 0, 0>> >> >>
          IN /\ declarations # <<>> => pseudo_type # Unbound
             /\ cascaded_styles' =
                    AddStyleAttribute(cascaded_styles, declarations, cursor, pseudo_type)
             /\ applied' = applied \o CallsOf(matched, declarations, "author", TRUE)
    /\ AfterInline
    /\ UNCHANGED <<family, parent, origin, rules, count, computed_styles, pseudo_type,
                   failure, log, specified>>
    /\ UNCHANGED <<stage, input, output>>

\* Line 463 reads pseudo_type when no iteration of the loop of line 451 has
\* assigned it: NameError.
InlineNameError ==
    /\ pc = "inline"
    /\ pseudo_type = Unbound
    /\ \E style_attribute \in StyleAttributesOf(family) :
          effective_declarations(style_attribute) # <<>>
    /\ Fail("NameError")
    /\ UNCHANGED <<family, parent, origin, rules, count, cascaded_styles, computed_styles,
                   pseudo_type, cursor, log, applied, specified>>
    /\ UNCHANGED <<stage, input, output>>

\* set_computed_styles, lines 344-349.
ParentOf(element, ptype) ==
    IF element = AtPage THEN 0
    ELSE IF ptype # None THEN element
    ELSE parent[element]

\* set_computed_styles: [raised, style, specified]; raised is the KeyError of
\* computed_styles[parent, None].
set_computed_styles(cascaded, computed, element, ptype) ==
    LET p == ParentOf(element, ptype)
        missing == p # 0 /\ <<p, None>> \notin DOMAIN computed
        parent_style == IF p = 0 \/ missing THEN NoStyle ELSE computed[<<p, None>>]
        cascaded_style == DictGet(cascaded, <<element, ptype>>, EmptyDict)
    IN [raised |-> missing,
        style |-> computed_from_cascaded(element, cascaded_style, parent_style, ptype),
        specified |-> SpecifiedStyle(cascaded_style, parent_style)]

SetComputedStyles(element, ptype) ==
    LET result == set_computed_styles(cascaded_styles, computed_styles, element, ptype)
    IN IF result.raised
       THEN /\ failure' = "KeyError"
            /\ UNCHANGED <<computed_styles, specified>>
       ELSE /\ failure' = failure
            /\ computed_styles' = DictSet(computed_styles, <<element, ptype>>, result.style)
            /\ specified' = DictSet(specified, <<element, ptype>>, result.specified)

\* Mutant: the loop of lines 488-491 takes the '@page' keys too.
PseudoKeys_with_pages(cascaded) == { k \in DOMAIN cascaded : k[2] # None }

\* The keys of the loop of lines 488-491.
PseudoKeys(cascaded) == { k \in DOMAIN cascaded : k[2] # None /\ k[1] # AtPage }

\* Mutant: the elements are resolved from the last one to the first.
ElementStyle_reversed ==
    /\ pc = "elements"
    /\ SetComputedStyles(NumElements + 1 - cursor, None)
    /\ IF failure' # None THEN pc' = "failed" /\ cursor' = cursor
       ELSE IF cursor < NumElements THEN pc' = pc /\ cursor' = cursor + 1
       ELSE /\ cursor' = 1
            /\ pc' = IF PseudoKeys(cascaded_styles) = {} THEN "pages" ELSE "pseudo"
    /\ UNCHANGED <<family, parent, origin, rules, count, cascaded_styles, pseudo_type,
                   log, applied>>
    /\ UNCHANGED <<stage, input, output>>

\* for element in document.dom.iter(): set_computed_styles(..., element)
ElementStyle ==
    /\ pc = "elements"
    /\ SetComputedStyles(cursor, None)
    /\ IF failure' # None THEN pc' = "failed" /\ cursor' = cursor
       ELSE IF cursor < NumElements THEN pc' = pc /\ cursor' = cursor + 1
       ELSE /\ cursor' = 1
            /\ pc' = IF PseudoKeys(cascaded_styles) = {} THEN "pages" ELSE "pseudo"
    /\ UNCHANGED <<family, parent, origin, rules, count, cascaded_styles, pseudo_type,
                   log, applied>>
    /\ UNCHANGED <<stage, input, output>>

\* for element, pseudo_type in cascaded_styles: one key with a pseudo-type; a
\* dict is iterated in an arbitrary order, every key once.
PseudoStyle ==
    /\ pc = "pseudo"
    /\ \E key \in PseudoKeys(cascaded_styles) \ DOMAIN computed_styles :
          /\ SetComputedStyles(key[1], key[2])
          /\ pseudo_type' = key[2]
          /\ pc' = IF failure' # None THEN "failed"
                   ELSE IF PseudoKeys(cascaded_styles) \ DOMAIN computed_styles = {key}
                   THEN "pages" ELSE pc
    /\ UNCHANGED <<family, parent, origin, rules, count, cascaded_styles, cursor,
                   log, applied>>
    /\ UNCHANGED <<stage, input, output>>

\* Mutant: only the page types that have a cascaded style are resolved.
PageStyle_cascaded_only ==
    /\ pc = "pages"
    /\ IF <<AtPage, PAGE_PSEUDOCLASS_TARGETS[None][cursor]>> \in DOMAIN cascaded_styles
       THEN SetComputedStyles(AtPage, PAGE_PSEUDOCLASS_TARGETS[None][cursor])
       ELSE UNCHANGED <<failure, computed_styles, specified>>
    /\ IF failure' # None THEN pc' = "failed" /\ cursor' = cursor
       ELSE IF cursor < Len(PAGE_PSEUDOCLASS_TARGETS[None])
       THEN pc' = pc /\ cursor' = cursor + 1
       ELSE pc' = "done" /\ cursor' = cursor
    /\ UNCHANGED <<family, parent, origin, rules, count, cascaded_styles, pseudo_type,
                   log, applied>>
    /\ UNCHANGED <<stage, input, output>>

\* for page_type in PAGE_PSEUDOCLASS_TARGETS[None]; then return computed_styles.
PageStyle ==
    /\ pc = "pages"
    /\ SetComputedStyles(AtPage, PAGE_PSEUDOCLASS_TARGETS[None][cursor])
    /\ IF failure' # None THEN pc' = "failed" /\ cursor' = cursor
       ELSE IF cursor < Len(PAGE_PSEUDOCLASS_TARGETS[None])
       THEN pc' = pc /\ cursor' = cursor + 1
       ELSE pc' = "done" /\ cursor' = cursor
    /\ UNCHANGED <<family, parent, origin, rules, count, cascaded_styles, pseudo_type,
                   log, applied>>
    /\ UNCHANGED <<stage, input, output>>

NextCascade ==
    \/ BeginSheet
    \/ SheetFails
    \/ StyleRule
    \/ PageRule
    \/ OtherRule
    \/ EndOrigin

Next ==
    \/ BeginSheet
    \/ SheetFails
    \/ StyleRule
    \/ PageRule
    \/ OtherRule
    \/ EndOrigin
    \/ InlineStyle
    \/ InlineNameError
    \/ ElementStyle
    \/ PseudoStyle
    \/ PageStyle

Spec == Init /\ [][Next]_vars

SpecCascade == InitCascade /\ [][NextCascade]_vars


\* ---------------------------------------------------------------------
\* Functions applied on their own: input holds the arguments, the action
\* applies the function and output holds what the call produced.

run == <<family, parent, pc, origin, rules, count, cascaded_styles, computed_styles,
         pseudo_type, cursor, failure, log, applied, specified>>

\* get_all_computed_styles is not running.
Standalone ==
    /\ family = None
    /\ parent = [e \in Elements |-> e - 1]
    /\ Entry

\* The origin labels declaration_precedence is called with: the three of
\* lines 200-209 and labels that are none of them.
OriginLabels == {"author", "user", "user agent", "User", "agent", ""}

Importances == {"", "important"}

Specificities ==
    { <<0, 0, 0, 0>>, <<0, 0, 0, 1>>, <<0, 0, 1, 0>>, <<0, 1, 0, 0>>, <<1, 0, 0, 0>> }

\* Whether declaration_precedence raises. No statement of lines 200-211 does:
\* line 211 is `assert ValueError(...)`, the assertion of an exception instance,
\* which is true, so the function falls off its end and returns None.
declaration_precedence_raises(origin_name, importance) == FALSE

\* Lines 452-454: precedence = declaration_precedence(origin, importance) and
\* weight = (precedence, selector.specificity), for any origin label.
WeightOf(origin_name, importance, specificity) ==
    IF declaration_precedence_raises(origin_name, importance)
    THEN [raised |-> TRUE, weight |-> <<>>]
    ELSE [raised |-> FALSE,
          weight |-> <<declaration_precedence(origin_name, importance), specificity>>]

InitPrecedence ==
    /\ Standalone
    /\ stage = "call"
    /\ input \in [origin : OriginLabels, importance : Importances,
                  specificity : Specificities]
    /\ output = <<>>

BuildWeight ==
    /\ stage = "call"
    /\ stage' = "declaration_precedence"
    /\ output' = WeightOf(input.origin, input.importance, input.specificity)
    /\ UNCHANGED <<run, input>>

NextPrecedence == BuildWeight

SpecPrecedence == InitPrecedence /\ [][NextPrecedence]_vars


\* effective_rules applied on its own to stylesheets with @media and @import
\* rules nested up to two deep.
PlainRules ==
    { StyleRuleOf(<<SelAll>>, ColorRed), PlainRuleOf("FONT_FACE_RULE"),
      PlainRuleOf("COMMENT") }

MediaLists == { <<"all">>, <<"print">>, <<"screen">>, <<"all", "screen">> }

OneOrTwo(S) == { <<a>> : a \in S } \cup { <<a, b>> : a \in S, b \in S }

NestedRules(blocks) ==
    { MediaRuleOf(media, cssRules) : media \in MediaLists \ {<<"all", "screen">>},
                                     cssRules \in blocks }
    \cup { ImportRuleOf(media, cssRules) : media \in MediaLists \ {<<"all", "screen">>},
                                           cssRules \in blocks }

Sheets ==
    LET nested == NestedRules(OneOrTwo(PlainRules))
        top == PlainRules \cup {PlainRuleOf("CHARSET_RULE")} \cup nested
    IN { [media |-> media, cssRules |-> cssRules] :
            media \in MediaLists,
            cssRules \in OneOrTwo(top)
                            \cup { <<rule>> : rule \in NestedRules({ <<n>> : n \in nested }) } }

InitRules ==
    /\ Standalone
    /\ stage = "call"
    /\ input \in [sheet : Sheets, medium : {Medium}]
    /\ output = <<>>

EffectiveRules ==
    /\ stage = "call"
    /\ stage' = "effective_rules"
    /\ output' = effective_rules(input.sheet, input.medium)
    /\ UNCHANGED <<run, input>>

NextRules == EffectiveRules

SpecRules == InitRules /\ [][NextRules]_vars


\* ---------------------------------------------------------------------
\* The box tree and its two normalization passes (weasy.formatting_structure).
\* A box is [type, tag, children] with the types test_boxes.serialize prints:
\* text, block, inline, inline_block, line, anon_block. tag is the element
\* the box comes from (for a text box of the tests, its text); a LineBox or
\* AnonymousBlockBox takes the tag of the block container it is made for.

Box(type, tag, children) == [type |-> type, tag |-> tag, children |-> children]

Text(content) == Box("text", content, <<>>)

LineBox(tag, children) == Box("line", tag, children)

AnonymousBlockBox(tag, children) == Box("anon_block", tag, children)

BlockLevel(box) == box.type \in {"block", "anon_block"}

BlockContainer(box) == box.type \in {"block", "anon_block", "inline_block"}

RECURSIVE Concat(_)
Concat(seqs) == IF seqs = <<>> THEN <<>> ELSE Head(seqs) \o Concat(Tail(seqs))

\* Mutant: a LineBox that is already there is taken for one more inline-level
\* child.
RunOf_rewrapped(child) == <<child>>

\* The run a child adds to the inline content of its container: a LineBox
\* that is already there stands for its children.
RunOf(child) == IF child.type = "line" THEN child.children ELSE <<child>>

WrappedRun(tag, inlines) ==
    IF inlines = <<>> THEN <<>>
    ELSE << AnonymousBlockBox(tag, <<LineBox(tag, inlines)>>) >>

\* The children of a mixed container: each maximal run of inline-level
\* children in an AnonymousBlockBox holding one LineBox, between the
\* block-level children.
RECURSIVE WrapRuns(_, _, _)
WrapRuns(children, inlines, tag) ==
    IF children = <<>> THEN WrappedRun(tag, inlines)
    ELSE IF BlockLevel(Head(children))
    THEN WrappedRun(tag, inlines) \o <<Head(children)>>
             \o WrapRuns(Tail(children), <<>>, tag)
    ELSE WrapRuns(Tail(children), inlines \o RunOf(Head(children)), tag)

\* Mutant: a block container whose children are all inline-level gets an
\* AnonymousBlockBox around its LineBox too.
RECURSIVE inline_in_block_always_anonymous(_)
inline_in_block_always_anonymous(box) ==
    LET children == [i \in DOMAIN box.children |->
                        inline_in_block_always_anonymous(box.children[i])]
    IN IF ~BlockContainer(box) THEN Box(box.type, box.tag, children)
       ELSE Box(box.type, box.tag, WrapRuns(children, <<>>, box.tag))

\* build.inline_in_block, bottom-up.
RECURSIVE inline_in_block(_)
inline_in_block(box) ==
    LET children == [i \in DOMAIN box.children |-> inline_in_block(box.children[i])]
        inlines == Concat([i \in DOMAIN children |-> RunOf(children[i])])
    IN IF ~BlockContainer(box) THEN Box(box.type, box.tag, children)
       ELSE IF \A i \in DOMAIN children : ~BlockLevel(children[i])
       THEN Box(box.type, box.tag,
                IF inlines = <<>> THEN <<>> ELSE <<LineBox(box.tag, inlines)>>)
       ELSE Box(box.type, box.tag, WrapRuns(children, <<>>, box.tag))

\* Mutant: the line fragments are left bare between the blocks.
Fragments_bare(pieces, tag) == pieces

\* The pieces a split line becomes in its block container: the line
\* fragments in AnonymousBlockBoxes, the blocks between them; a line without
\* a block stays as it is.
Fragments(pieces, tag) ==
    IF Len(pieces) = 1 THEN pieces
    ELSE [i \in DOMAIN pieces |->
             IF i % 2 = 1 THEN AnonymousBlockBox(tag, <<pieces[i]>>) ELSE pieces[i]]

RECURSIVE block_in_inline(_)
RECURSIVE Split(_)
RECURSIVE SplitFrom(_, _, _)
RECURSIVE Replacement(_, _)

\* A LineBox or InlineBox scanned from left to right: fragment, block,
\* fragment, ..., fragment. Every fragment is a box of the type and tag of the
\* split box, empty when there is nothing on its side of the block.
SplitFrom(box, children, pieces) ==
    IF children = <<>> THEN pieces
    ELSE LET child == Head(children)
             last == pieces[Len(pieces)]
             front == SubSeq(pieces, 1, Len(pieces) - 1)
             Add(c) == Box(last.type, last.tag, Append(last.children, c))
         IN IF BlockLevel(child)
            THEN SplitFrom(box, Tail(children),
                     pieces \o <<block_in_inline(child), Box(box.type, box.tag, <<>>)>>)
            ELSE IF child.type = "inline"
            THEN LET sub == Split(child)
                     rest == [i \in 1..(Len(sub) - 1) |->
                                 IF i % 2 = 1 THEN sub[i + 1]
                                 ELSE Box(box.type, box.tag, <<sub[i + 1]>>)]
                 IN SplitFrom(box, Tail(children), front \o <<Add(sub[1])>> \o rest)
            ELSE SplitFrom(box, Tail(children), front \o <<Add(block_in_inline(child))>>)

Split(box) == SplitFrom(box, box.children, <<Box(box.type, box.tag, <<>>)>>)

\* What a child of box becomes: a LineBox, or the AnonymousBlockBox of a
\* LineBox, in which a block is found is replaced by its pieces.
Replacement(box, child) ==
    IF child.type = "line" THEN Fragments(Split(child), box.tag)
    ELSE IF /\ child.type = "anon_block"
            /\ Len(child.children) = 1
            /\ child.children[1].type = "line"
            /\ Len(Split(child.children[1])) > 1
    THEN Fragments(Split(child.children[1]), child.tag)
    ELSE <<block_in_inline(child)>>

\* build.block_in_inline.
block_in_inline(box) ==
    Box(box.type, box.tag,
        Concat([i \in DOMAIN box.children |-> Replacement(box, box.children[i])]))

\* test_inline_in_block: the boxes of
\* <div>Hello, <em>World</em>!\n<p>Lipsum.</p></div> under <body>.
TestInlineInBlockSource ==
    Box("block", "body", <<
        Box("block", "div", <<
            Text("Hello, "),
            Box("inline", "em", << Text("World") >>),
            Text("!\n"),
            Box("block", "p", << Text("Lipsum.") >>) >>) >>)

TestInlineInBlockExpected ==
    Box("block", "body", <<
        Box("block", "div", <<
            AnonymousBlockBox("div", <<
                LineBox("div", <<
                    Text("Hello, "),
                    Box("inline", "em", << Text("World") >>),
                    Text("!\n") >>) >>),
            Box("block", "p", <<
                LineBox("p", << Text("Lipsum.") >>) >>) >>) >>)

\* test_block_in_inline: the boxes of the document of lines 190-196.
TestBlockInInlineSource ==
    Box("block", "body", <<
        Box("inline_block", "p", <<
            Text("Lorem "),
            Box("inline", "em", <<
                Text("ipsum "),
                Box("inline", "strong", <<
                    Text("dolor "),
                    Box("block", "span", << Text("sit") >>),
                    Text("\n    "),
                    Box("block", "span", << Text("amet,") >>) >>),
                Box("block", "span", <<
                    Box("inline", "em", <<
                        Text("consectetur"),
                        Box("block", "div", <<>>) >>) >>) >>) >>) >>)

\* Lines 198-216: after inline_in_block.
TestBlockInInlineLines ==
    Box("block", "body", <<
        LineBox("body", <<
            Box("inline_block", "p", <<
                LineBox("p", <<
                    Text("Lorem "),
                    Box("inline", "em", <<
                        Text("ipsum "),
                        Box("inline", "strong", <<
                            Text("dolor "),
                            Box("block", "span", <<
                                LineBox("span", << Text("sit") >>) >>),
                            Text("\n    "),
                            Box("block", "span", <<
                                LineBox("span", << Text("amet,") >>) >>) >>),
                        Box("block", "span", <<
                            LineBox("span", <<
                                Box("inline", "em", <<
                                    Text("consectetur"),
                                    Box("block", "div", <<>>) >>) >>) >>) >>) >>) >>) >>) >>)

\* Lines 219-262: after block_in_inline.
TestBlockInInlineExpected ==
    Box("block", "body", <<
        LineBox("body", <<
            Box("inline_block", "p", <<
                AnonymousBlockBox("p", <<
                    LineBox("p", <<
                        Text("Lorem "),
                        Box("inline", "em", <<
                            Text("ipsum "),
                            Box("inline", "strong", << Text("dolor ") >>) >>) >>) >>),
                Box("block", "span", <<
                    LineBox("span", << Text("sit") >>) >>),
                AnonymousBlockBox("p", <<
                    LineBox("p", <<
                        Box("inline", "em", <<
                            Box("inline", "strong", << Text("\n    ") >>) >>) >>) >>),
                Box("block", "span", <<
                    LineBox("span", << Text("amet,") >>) >>),
                AnonymousBlockBox("p", <<
                    LineBox("p", <<
                        Box("inline", "em", <<
                            Box("inline", "strong", <<>>) >>) >>) >>),
                Box("block", "span", <<
                    AnonymousBlockBox("span", <<
                        LineBox("span", <<
                            Box("inline", "em", << Text("consectetur") >>) >>) >>),
                    Box("block", "div", <<>>),
                    AnonymousBlockBox("span", <<
                        LineBox("span", <<
                            Box("inline", "em", <<>>) >>) >>) >>),
                AnonymousBlockBox("p", <<
                    LineBox("p", <<
                        Box("inline", "em", <<>>) >>) >>) >>) >>) >>)

TestTrees == {TestInlineInBlockSource, TestBlockInInlineSource}

\* The box trees build.dom_to_box makes, up to MaxBoxes boxes: a BlockBox
\* root over text, block, inline and inline-block boxes. ForestsOf(n) is the
\* child sequences of n boxes in all.
RECURSIVE TreesOf(_)
RECURSIVE ForestsOf(_)
TreesOf(n) ==
    IF n = 1
    THEN { Box(type, <<>>, <<>>) : type \in {"text", "block", "inline", "inline_block"} }
    ELSE { Box(type, <<>>, children) :
              type \in {"block", "inline", "inline_block"}, children \in ForestsOf(n - 1) }

ForestsOf(n) ==
    IF n = 0 THEN { <<>> }
    ELSE UNION { { <<first>> \o others : first \in TreesOf(k), others \in ForestsOf(n - k) } :
                    k \in 1..n }

\* box.element: every box made from the document is tagged with its
\* position in the tree.
RECURSIVE Label(_, _)
Label(box, path) ==
    Box(box.type, path,
        [i \in DOMAIN box.children |-> Label(box.children[i], Append(path, i))])

BoxTrees ==
    { Label(Box("block", <<>>, children), <<>>) :
         children \in UNION { ForestsOf(n) : n \in 0..(MaxBoxes - 1) } }

\* The passes are applied in one of these orders.
Pipelines ==
    { <<"inline_in_block", "inline_in_block">>,
      <<"inline_in_block", "block_in_inline", "block_in_inline">>,
      <<"block_in_inline", "block_in_inline">> }

Planned(passes) ==
    \E pipeline \in Pipelines :
       /\ Len(passes) <= Len(pipeline)
       /\ SubSeq(pipeline, 1, Len(passes)) = passes

\* stage is the passes applied so far, input the tree of dom_to_box, and
\* output the tree at the start and after each pass.
InitBoxes ==
    /\ Standalone
    /\ stage = <<>>
    /\ \/ input \in BoxTrees
       \/ input \in TestTrees
    /\ output = <<input>>

InlineInBlock ==
    /\ Planned(Append(stage, "inline_in_block"))
    /\ stage' = Append(stage, "inline_in_block")
    /\ output' = Append(output, inline_in_block(output[Len(output)]))
    /\ UNCHANGED <<run, input>>

BlockInInline ==
    /\ Planned(Append(stage, "block_in_inline"))
    /\ stage' = Append(stage, "block_in_inline")
    /\ output' = Append(output, block_in_inline(output[Len(output)]))
    /\ UNCHANGED <<run, input>>

NextBoxes ==
    \/ InlineInBlock
    \/ BlockInInline

SpecBoxes == InitBoxes /\ [][NextBoxes]_vars


\* ---------------------------------------------------------------------
\* Claims.

\* The stored (values, weight) of a property on a key of cascaded_styles.
Stored(element, ptype, name) == cascaded_styles[<<element, ptype>>][name]

HasStored(element, ptype, name) ==
    /\ <<element, ptype>> \in DOMAIN cascaded_styles
    /\ name \in DOMAIN cascaded_styles[<<element, ptype>>]

SameTarget(a, b) ==
    a.element = b.element /\ a.pseudo_type = b.pseudo_type /\ a.name = b.name

StrictlyHigher(w1, w2) ==
    \/ w1[1] > w2[1]
    \/ w1[1] = w2[1] /\ w1[2] # w2[2] /\ SpecificityLE(w2[2], w1[2])

\* C1: of the declarations added to one key for one property, the stored
\* winner is the one that no other beats: none has a strictly higher weight,
\* and none of equal weight was processed later; so of two declarations the
\* strictly heavier wins in either order and, at equal weights, the later.
C1_HeaviestThenLatestWins ==
    \A i \in DOMAIN applied :
        LET a == applied[i]
            beaten == \E j \in DOMAIN applied :
                         /\ SameTarget(a, applied[j])
                         /\ \/ StrictlyHigher(applied[j].weight, a.weight)
                            \/ applied[j].weight = a.weight /\ j > i
        IN /\ HasStored(a.element, a.pseudo_type, a.name)
           /\ ~beaten => Stored(a.element, a.pseudo_type, a.name) = <<a.values, a.weight>>

\* C1 witness: a declaration processed first keeps the property against a
\* lighter declaration with another value processed after it.
C1_Witness ==
    \E i, j \in DOMAIN applied :
        /\ i < j
        /\ SameTarget(applied[i], applied[j])
        /\ StrictlyHigher(applied[i].weight, applied[j].weight)
        /\ applied[i].values # applied[j].values
        /\ Stored(applied[i].element, applied[i].pseudo_type, applied[i].name)
              = <<applied[i].values, applied[i].weight>>

\* C2: every weight built by the cascade has the precedence of the fixed
\* scale: user agent 1, user 2, author 3, author !important 4, user
\* !important 5.
C2_PrecedenceScale ==
    \A i \in DOMAIN applied :
        LET a == applied[i]
            important == a.importance = "important"
        IN a.weight[1] =
              CASE a.origin = "user agent" -> 1
                [] a.origin = "user" /\ ~important -> 2
                [] a.origin = "author" /\ ~important -> 3
                [] a.origin = "author" /\ important -> 4
                [] a.origin = "user" /\ important -> 5

\* C2 witness: an author !important and a user !important declaration have
\* both been weighed, and so has a user-agent one or a non-important one.
C2_Witness ==
    /\ \E i \in DOMAIN applied :
          applied[i].origin = "author" /\ applied[i].importance = "important"
    /\ \E i \in DOMAIN applied :
          applied[i].origin = "user" /\ applied[i].importance = "important"


\* C3: every declaration of a style attribute is added under the key
\* (element, None), and no run ends because pseudo_type was never assigned.
C3_InlineKeyIsElementNone ==
    /\ \A i \in DOMAIN applied : applied[i].inline => applied[i].pseudo_type = None
    /\ failure # "NameError"

\* The selector-based declarations of the same element and property as the
\* inline declaration a.
Rivals(a) ==
    { j \in DOMAIN applied :
        /\ ~applied[j].inline
        /\ applied[j].element = a.element
        /\ applied[j].pseudo_type = None
        /\ applied[j].name = a.name }

\* C4: on its element an inline declaration is beaten only by a selector-based
\* declaration of strictly higher precedence: when there is none, the stored
\* winner on (element, None) is an inline declaration, of specificity
\* (1,0,0,0); when there is one, the stored winner has a higher precedence.
C4_InlineAgainstSelectors ==
    \A i \in DOMAIN applied :
        LET a == applied[i]
            higher == \E j \in Rivals(a) : applied[j].weight[1] > a.weight[1]
        IN a.inline =>
              /\ HasStored(a.element, None, a.name)
              /\ ~higher => Stored(a.element, None, a.name)[2][2] = <<1, 0, 0, 0>>
              /\ higher => Stored(a.element, None, a.name)[2][1] > a.weight[1]

\* The parent whose computed style a key inherits from, 0 when it has none:
\* the host element of a pseudo-element, the parent element of an element,
\* nothing for the root and for '@page'.
InheritsFrom(key) ==
    IF key[1] = AtPage THEN 0
    ELSE IF key[2] # None THEN key[1]
    ELSE parent[key[1]]

\* C5: on every resolved key, a property of the fixed set that is inherited
\* and has no cascaded value, or whose cascaded value is the keyword inherit,
\* has as specified value the parent's computed value, and the initial value
\* when the key has no parent.
C5_InheritTakesParentComputed ==
    \A key \in DOMAIN specified :
    \A name \in DOMAIN INITIAL_VALUES :
        LET cascaded == DictGet(cascaded_styles, key, EmptyDict)
            inherits == IF name \in DOMAIN cascaded
                        THEN cascaded[name][1] = <<"inherit">>
                        ELSE name \in INHERITED
            p == InheritsFrom(key)
        IN inherits =>
              specified[key][name] =
                 IF p = 0 THEN INITIAL_VALUES[name] ELSE computed_styles[<<p, None>>][name]

\* C5 witness: an element with margin-top: inherit whose specified margin-top
\* is its parent's computed 96px, not the initial value and not the parent's
\* specified 1in; its color, without cascaded value, is the parent's.
C5_Witness ==
    \E key \in DOMAIN specified :
        /\ key[2] = None /\ key[1] # AtPage /\ parent[key[1]] # 0
        /\ HasStored(key[1], None, "margin-top")
        /\ Stored(key[1], None, "margin-top")[1] = <<"inherit">>
        /\ ~HasStored(key[1], None, "color")
        /\ specified[key]["margin-top"] = <<"96px">>
        /\ specified[<<parent[key[1]], None>>]["margin-top"] = <<"1in">>
        /\ specified[key]["color"] = computed_styles[<<parent[key[1]], None>>]["color"]

\* C6: every computed style has every property of the fixed set, and none is
\* left as the keyword inherit or initial.
C6_ComputedStylesComplete ==
    \A key \in DOMAIN computed_styles :
        /\ DOMAIN INITIAL_VALUES \subseteq DOMAIN computed_styles[key]
        /\ \A name \in DOMAIN INITIAL_VALUES :
              computed_styles[key][name] \notin {<<"inherit">>, <<"initial">>}

\* C6 witness: the map is returned, and a cascaded value was the keyword
\* initial and another the keyword inherit.
C6_Witness ==
    /\ pc = "done"
    /\ \E i \in DOMAIN applied : applied[i].values = <<"initial">>
    /\ \E i \in DOMAIN applied : applied[i].values = <<"inherit">>

\* C7: the returned map has exactly the four '@page' keys.
C7_FourPageKeys ==
    pc = "done" =>
        { key \in DOMAIN computed_styles : key[1] = AtPage }
           = { <<AtPage, "left">>, <<AtPage, "right">>,
               <<AtPage, "first_left">>, <<AtPage, "first_right">> }

\* C7 witness: the map is returned for stylesheets without any @page rule.
C7_Witness ==
    /\ pc = "done"
    /\ log # <<>>
    /\ \A i \in DOMAIN log : log[i][2].type # "PAGE_RULE"
    /\ \A key \in DOMAIN cascaded_styles : key[1] # AtPage


\* The page types an @page selector applies to and its specificity, as C8
\* states them.
ClaimPageTypes(selector) ==
    CASE selector = "" -> {"left", "right", "first_left", "first_right"}
      [] selector = ":left" -> {"left", "first_left"}
      [] selector = ":right" -> {"right", "first_right"}
      [] selector = ":first" -> {"first_left", "first_right"}
      [] OTHER -> {}

ClaimPageSpecificity(selector) ==
    CASE selector = ":first" -> 10
      [] selector \in {":left", ":right"} -> 1
      [] OTHER -> 0

\* The declarations of the @page rules processed so far.
PageDeclarations ==
    UNION { { [origin |-> log[i][1], selector |-> log[i][2].selectorText,
               name |-> d[1], values |-> d[2], importance |-> d[3]] :
              d \in { effective_declarations(log[i][2].style)[k] :
                        k \in DOMAIN effective_declarations(log[i][2].style) } } :
            i \in { n \in DOMAIN log : log[n][2].type = "PAGE_RULE" } }

Margins(style) ==
    <<style["margin-top"], style["margin-right"], style["margin-bottom"],
      style["margin-left"]>>

\* C8: when the @page declarations of a property that apply to a page type
\* have one origin and importance, the stored value is that of one of the most
\* specific of them (:first 10, :left and :right 1, no pseudo-class 0),
\* whatever their order; and for the stylesheet of test_page_style, its rules
\* in any order, the first right page has margins 20 10 3 3, a left page
\* 10 3 3 10, a right page 10 10 3 3 and the first left page 20 3 3 10.
C8_PageSpecificity ==
    /\ \A t \in {"left", "right", "first_left", "first_right"} :
       \A name \in DOMAIN INITIAL_VALUES :
          LET candidates == { d \in PageDeclarations :
                                 t \in ClaimPageTypes(d.selector) /\ d.name = name }
          IN (/\ candidates # {}
              /\ \A d1, d2 \in candidates :
                    d1.origin = d2.origin /\ d1.importance = d2.importance)
             => /\ HasStored(AtPage, t, name)
                /\ \E d \in candidates :
                      /\ Stored(AtPage, t, name)[1] = d.values
                      /\ \A d2 \in candidates :
                            ClaimPageSpecificity(d2.selector)
                               <= ClaimPageSpecificity(d.selector)
    /\ (family = "test_page_style" /\ pc = "done" /\ Len(log) = 4) =>
          /\ Margins(computed_styles[<<AtPage, "first_right">>])
                = << <<"20px">>, <<"10px">>, <<"3px">>, <<"3px">> >>
          /\ Margins(computed_styles[<<AtPage, "left">>])
                = << <<"10px">>, <<"3px">>, <<"3px">>, <<"10px">> >>
          /\ Margins(computed_styles[<<AtPage, "right">>])
                = << <<"10px">>, <<"10px">>, <<"3px">>, <<"3px">> >>
          /\ Margins(computed_styles[<<AtPage, "first_left">>])
                = << <<"20px">>, <<"3px">>, <<"3px">>, <<"10px">> >>

\* C8 witness: the page styles are returned for the rules of test_page_style
\* read from the most specific (:first) to the least specific (no
\* pseudo-class), the reverse of the test's order.
C8_Witness ==
    /\ family = "test_page_style" /\ pc = "done" /\ Len(log) = 4
    /\ log[1][2].selectorText = ":first"
    /\ log[4][2].selectorText = ""

\* An unsupported or invalid selector, as C9 states it: a pseudo-element that
\* is not one of the four recognized or is not at the end.
ClaimUnsupported(selector) ==
    selector.inner \/ selector.ident \notin (PSEUDO_ELEMENTS \cup {None})

DiscardedRule(rule) ==
    /\ rule.type = "STYLE_RULE"
    /\ \E i \in DOMAIN rule.selectorList : ClaimUnsupported(rule.selectorList[i])

\* C9: the step that processes a style rule with an unsupported selector in
\* its list adds no declaration to any cascaded style and raises nothing: the
\* loop over the rules goes on.
C9_InvalidSelectorDiscardsRule ==
    [][ (/\ Len(log') = Len(log) + 1
         /\ DiscardedRule(log'[Len(log')][2]))
        => /\ cascaded_styles' = cascaded_styles
           /\ applied' = applied
           /\ pc' = "cascade"
           /\ failure' = None ]_vars

\* C9 witness: a rule whose list has a selector matching every element and an
\* unsupported one was read first and left no cascaded style; the rule read
\* after it was applied.
C9_Witness ==
    /\ Len(log) = 2
    /\ DiscardedRule(log[1][2])
    /\ \E i \in DOMAIN log[1][2].selectorList : log[1][2].selectorList[i] = SelAll
    /\ applied # <<>>
    /\ \A i \in DOMAIN applied :
          <<applied[i].name, applied[i].values, applied[i].importance>>
             \in { effective_declarations(log[2][2].style)[k] :
                     k \in DOMAIN effective_declarations(log[2][2].style) }

\* C10: a stylesheet that cannot be fetched or parsed never ends
\* get_all_computed_styles.
C10_SheetFailureIsNotFatal ==
    failure \notin {"URLError", "AttributeError"}

\* C11: a call of declaration_precedence with an origin other than 'author',
\* 'user' and 'user agent' raises, returns no precedence, and no weight is
\* built from it.
C11_UnknownOriginIsFatal ==
    (stage = "declaration_precedence" /\ input.origin \notin {"author", "user", "user agent"})
        => output.raised /\ Len(output.weight) = 0

Passes(first, second) ==
    { i \in 1..(Len(stage) - 1) : stage[i] = first /\ stage[i + 1] = second }

\* C12: both passes are idempotent: inline_in_block applied to the result of
\* inline_in_block, and block_in_inline applied to the result of
\* block_in_inline, return a tree equal to their argument.
C12_PassesIdempotent ==
    \A i \in Passes("inline_in_block", "inline_in_block")
             \cup Passes("block_in_inline", "block_in_inline") :
       output[i + 2] = output[i + 1]

\* test_inline_in_block: the first pass built the expected tree with its
\* LineBox and AnonymousBlockBox, the second one returned the same tree.
C12_Witness ==
    /\ input = TestInlineInBlockSource
    /\ stage = <<"inline_in_block", "inline_in_block">>
    /\ output[2] = TestInlineInBlockExpected
    /\ output[2] # output[1]
    /\ output[3] = output[2]

RECURSIVE Subboxes(_)
Subboxes(box) ==
    {box} \cup UNION { Subboxes(box.children[i]) : i \in DOMAIN box.children }

\* The blocks block_in_inline has to pull up, each with the tags of the inline
\* boxes between it and its line, outermost first.
RECURSIVE Misplaced(_, _)
Misplaced(box, chain) ==
    UNION { (IF BlockLevel(box.children[i]) /\ box.type = "inline"
             THEN { [tag |-> box.children[i].tag, chain |-> chain] } ELSE {})
            \cup Misplaced(box.children[i],
                           IF box.children[i].type = "inline"
                           THEN Append(chain, box.children[i].tag) ELSE <<>>) :
            i \in DOMAIN box.children }

RECURSIVE FirstSpine(_)
FirstSpine(box) ==
    IF box.children = <<>> \/ Head(box.children).type # "inline" THEN <<>>
    ELSE <<Head(box.children).tag>> \o FirstSpine(Head(box.children))

RECURSIVE LastSpine(_)
LastSpine(box) ==
    IF box.children = <<>> \/ box.children[Len(box.children)].type # "inline" THEN <<>>
    ELSE <<box.children[Len(box.children)].tag>> \o LastSpine(box.children[Len(box.children)])

IsPrefix(s, t) == Len(s) <= Len(t) /\ SubSeq(t, 1, Len(s)) = s

IsFragment(box) ==
    box.type = "anon_block" /\ Len(box.children) = 1 /\ box.children[1].type = "line"

\* The text, block and inline-block boxes of a tree from left to right.
RECURSIVE Content(_)
Content(box) ==
    (IF box.type \in {"text", "block", "inline_block"} THEN <<box.tag>> ELSE <<>>)
        \o Concat([i \in DOMAIN box.children |-> Content(box.children[i])])

PulledUp(tree, block) ==
    \E container \in Subboxes(tree) :
       \E i \in DOMAIN container.children :
          /\ BlockContainer(container)
          /\ container.children[i].type = "block"
          /\ container.children[i].tag = block.tag
          /\ 1 < i /\ i < Len(container.children)
          /\ IsFragment(container.children[i - 1])
          /\ IsFragment(container.children[i + 1])
          /\ IsPrefix(block.chain, LastSpine(container.children[i - 1].children[1]))
          /\ IsPrefix(block.chain, FirstSpine(container.children[i + 1].children[1]))

\* C13: after inline_in_block and then block_in_inline no InlineBox or LineBox
\* has a block-level child; every block that was inside an inline box is a
\* child of a block container between two AnonymousBlockBox/LineBox pairs;
\* the content keeps its left-to-right order; and the inline ancestors of the
\* block are in both fragments, empty when that side has no content.
C13_NoBlockInInline ==
    \A i \in Passes("inline_in_block", "block_in_inline") :
       /\ \A box \in Subboxes(output[i + 2]) :
             box.type \in {"inline", "line"} =>
                \A k \in DOMAIN box.children : ~BlockLevel(box.children[k])
       /\ Content(output[i + 2]) = Content(output[i + 1])
       /\ \A block \in Misplaced(output[i + 1], <<>>) : PulledUp(output[i + 2], block)

\* test_block_in_inline: three blocks were pulled out of <em> and <strong>,
\* one of them leaving <strong> empty, and the tree is the expected one.
C13_Witness ==
    /\ input = TestBlockInInlineSource
    /\ stage = <<"inline_in_block", "block_in_inline">>
    /\ output[2] = TestBlockInInlineLines
    /\ output[3] = TestBlockInInlineExpected
    /\ Misplaced(output[2], <<>>) # {}

Unwrapped(child) ==
    IF IsFragment(child) THEN child.children[1].children
    ELSE IF child.type = "line" THEN child.children
    ELSE <<child>>

\* result is box with the children of every block container made uniform.
RECURSIVE Uniform(_, _)
Uniform(box, result) ==
    /\ result.type = box.type
    /\ result.tag = box.tag
    /\ IF ~BlockContainer(box)
       THEN /\ Len(result.children) = Len(box.children)
            /\ \A i \in DOMAIN box.children : Uniform(box.children[i], result.children[i])
       ELSE LET inner == Concat([i \in DOMAIN result.children |->
                                    Unwrapped(result.children[i])])
            IN /\ Len(inner) = Len(box.children)
               /\ \A i \in DOMAIN box.children : Uniform(box.children[i], inner[i])
               /\ IF box.children = <<>> THEN result.children = <<>>
                  ELSE IF \A i \in DOMAIN box.children : ~BlockLevel(box.children[i])
                  THEN /\ Len(result.children) = 1
                       /\ result.children[1].type = "line"
                  ELSE /\ \A i \in DOMAIN result.children :
                             /\ BlockLevel(result.children[i])
                             /\ result.children[i].type = "anon_block" =>
                                   /\ IsFragment(result.children[i])
                                   /\ result.children[i].children[1].children # <<>>
                                   /\ \A k \in DOMAIN result.children[i].children[1].children :
                                         ~BlockLevel(result.children[i].children[1].children[k])
                       /\ \A i \in 1..(Len(result.children) - 1) :
                             ~(/\ result.children[i].type = "anon_block"
                               /\ result.children[i + 1].type = "anon_block")

\* C14: after inline_in_block a block container whose children were all
\* inline-level has one LineBox holding them, and one with a block-level child
\* has block-level children only, each maximal run of inline-level children
\* being in one AnonymousBlockBox holding one LineBox, in the original order.
C14_UniformChildren ==
    (Len(stage) >= 1 /\ stage[1] = "inline_in_block") => Uniform(output[1], output[2])

\* test_inline_in_block after one pass: <div> is mixed and got an
\* AnonymousBlockBox, <p> has only text and got a LineBox.
C14_Witness ==
    /\ input = TestInlineInBlockSource
    /\ stage = <<"inline_in_block">>
    /\ output[2] = TestInlineInBlockExpected

ElementKeys == { <<e, None>> : e \in Elements }

\* C15: a key is resolved when the computed style of its parent exists, so
\* set_computed_styles never fails on a missing parent: an element after all
\* the elements before it in document order and before every other key, a
\* pseudo-element key after all the elements and before the '@page' keys,
\* inheriting from its host, and an '@page' key after all other keys, with no
\* parent.
C15_ParentsResolvedFirst ==
    [][ /\ pc \in {"elements", "pseudo", "pages"} => failure' = None
        /\ \A key \in DOMAIN computed_styles' \ DOMAIN computed_styles :
              /\ InheritsFrom(key) # 0 =>
                    <<InheritsFrom(key), None>> \in DOMAIN computed_styles
              /\ (key[1] # AtPage /\ key[2] = None) =>
                    DOMAIN computed_styles = { <<e, None>> : e \in 1..(key[1] - 1) }
              /\ (key[1] # AtPage /\ key[2] # None) =>
                    /\ ElementKeys \subseteq DOMAIN computed_styles
                    /\ \A other \in DOMAIN computed_styles : other[1] # AtPage
                    /\ \A name \in INHERITED :
                          ~HasStored(key[1], key[2], name) =>
                             specified'[key][name] =
                                computed_styles[<<key[1], None>>][name]
              /\ key[1] = AtPage =>
                    /\ ElementKeys \cup PseudoKeys(cascaded_styles)
                          \subseteq DOMAIN computed_styles
                    /\ InheritsFrom(key) = 0
      ]_vars

\* The styles were returned for a document with a child element and a
\* pseudo-element whose color, not cascaded, is the one its host was given.
C15_Witness ==
    /\ pc = "done"
    /\ parent[NumElements] # 0
    /\ \E key \in DOMAIN computed_styles :
          /\ key[1] # AtPage /\ key[2] # None
          /\ ~HasStored(key[1], key[2], "color")
          /\ computed_styles[key]["color"] = computed_styles[<<key[1], None>>]["color"]
          /\ computed_styles[key]["color"] # INITIAL_VALUES["color"]

\* An @page rule whose selector text is none of the four supported ones.
UnsupportedPageRule(rule) ==
    /\ rule.type = "PAGE_RULE"
    /\ rule.selectorText \notin {"", ":first", ":left", ":right"}

\* C16: the step that processes an @page rule with an unsupported selector
\* raises nothing, matches nothing and adds nothing to any cascaded style: the
\* loop over the rules goes on.
C16_UnsupportedPageSelectorIsIgnored ==
    [][ (/\ Len(log') = Len(log) + 1
         /\ UnsupportedPageRule(log'[Len(log')][2]))
        => /\ ~match_page_selector(log'[Len(log')][2].selectorText).raised
           /\ match_page_selector(log'[Len(log')][2].selectorText).matched = <<>>
           /\ cascaded_styles' = cascaded_styles
           /\ applied' = applied
           /\ pc' = "cascade"
           /\ failure' = None ]_vars

\* Every rule of a sheet that is not an @media or @import rule, in source
\* order, with the media lists of the sheet and of the @media and @import rules
\* around it.
RECURSIVE Occurrences(_, _)
Occurrences(cssRules, enclosing) ==
    IF cssRules = <<>> THEN <<>>
    ELSE (IF Head(cssRules).type \in {"MEDIA_RULE", "IMPORT_RULE"}
          THEN Occurrences(Head(cssRules).cssRules,
                           Append(enclosing, Head(cssRules).media))
          ELSE << [rule |-> Head(cssRules), enclosing |-> enclosing] >>)
         \o Occurrences(Tail(cssRules), enclosing)

ClaimMediaMatches(media, medium) ==
    media = <<"all">> \/ medium \in { media[i] : i \in DOMAIN media }

ClaimEffective(occurrence, medium) ==
    /\ occurrence.rule.type \notin {"CHARSET_RULE", "COMMENT"}
    /\ \A i \in DOMAIN occurrence.enclosing :
          ClaimMediaMatches(occurrence.enclosing[i], medium)

RECURSIVE ClaimRules(_, _)
ClaimRules(occurrences, medium) ==
    IF occurrences = <<>> THEN <<>>
    ELSE (IF ClaimEffective(Head(occurrences), medium)
          THEN <<Head(occurrences).rule>> ELSE <<>>)
         \o ClaimRules(Tail(occurrences), medium)

\* C17: effective_rules(sheet, medium) is, in source order, the rules that are
\* no charset rule, comment, @media or @import rule and whose sheet and every
\* @media and @import around them has a media list that is 'all' or holds the
\* medium.
C17_EffectiveRules ==
    stage = "effective_rules" =>
        output = ClaimRules(Occurrences(input.sheet.cssRules, <<input.sheet.media>>),
                            input.medium)

\* A sheet for all media with @media print { style rule; comment } followed by
\* an @font-face rule gave the style rule, then the @font-face rule.
C17_Witness ==
    /\ stage = "effective_rules"
    /\ input.sheet.media = <<"all">>
    /\ input.sheet.cssRules =
          << MediaRuleOf(<<"print">>, << StyleRuleOf(<<SelAll>>, ColorRed),
                                         PlainRuleOf("COMMENT") >>),
             PlainRuleOf("FONT_FACE_RULE") >>
    /\ output = << StyleRuleOf(<<SelAll>>, ColorRed), PlainRuleOf("FONT_FACE_RULE") >>

\* The keys C18 names: every element, every (element, pseudo-type) that has a
\* cascaded style, and the four page types.
ClaimKeys ==
    ElementKeys
    \cup { key \in DOMAIN cascaded_styles : key[1] \in Elements /\ key[2] # None }
    \cup { <<AtPage, page_type>> : page_type \in {"left", "right", "first_left", "first_right"} }

\* C18: computed_styles is empty until the computed-style phase; every step of
\* that phase writes one key that was not there, leaves the keys written
\* before as they are and leaves cascaded_styles as it is; and the map
\* returned has exactly the keys C18 names.
C18_ComputedStylesWrittenOnce ==
    [][ /\ pc \notin {"elements", "pseudo", "pages"} => computed_styles' = EmptyDict
        /\ pc \in {"elements", "pseudo", "pages"} =>
              /\ cascaded_styles' = cascaded_styles
              /\ Cardinality(DOMAIN computed_styles' \ DOMAIN computed_styles) = 1
              /\ \A key \in DOMAIN computed_styles :
                    /\ key \in DOMAIN computed_styles'
                    /\ computed_styles'[key] = computed_styles[key]
        /\ pc' = "done" => DOMAIN computed_styles' = ClaimKeys'
      ]_vars

\* The map was returned with the style of a pseudo-element that has cascaded
\* declarations and the style of an element that has none.
C18_Witness ==
    /\ pc = "done"
    /\ \E e \in Elements : <<e, None>> \notin DOMAIN cascaded_styles
    /\ \E key \in DOMAIN computed_styles : key[1] \in Elements /\ key[2] \in PSEUDO_ELEMENTS
    /\ Cardinality(DOMAIN computed_styles) = NumElements + 5

====
